---- MODULE Spec2Model ----
(***************************************************************************)
(* A model of rhsecapi.py: the command-line client of the Red Hat Security *)
(* Data API.  One run of the program is one behaviour: parse_args builds   *)
(* the search query, main constructs the RHSecApiParse object, performs    *)
(* the optional search, fetches and prints every CVE in turn, reports the  *)
(* counts and finally submits the buffered text to the pastebin.           *)
(*                                                                         *)
(* A Python string is modelled as a sequence of tokens (TLA+ strings);     *)
(* "\n" is a token of its own, and a value the code inspects character by  *)
(* character (a CVE id's prefix, a CWE id, a free text) is spelled out in  *)
(* tokens small enough for the inspection to be computed.                  *)
(***************************************************************************)
EXTENDS Integers, Sequences, FiniteSets, TLC

\* ------------------------------------------------------------------ bounds
\* Longest CVE list given on the command line.
MaxCves == 2
\* Longest list of records a search returns.
MaxResults == 2
\* Longest --fields list drawn freely from SelNames.
MaxSel == 2
\* the longest free text explored exhaustively, in characters
MaxText == 5
\* the longest list of text fragments explored
MaxFrags == 2

\* ----------------------------------------------------------- string helpers
NL == "\n"

Range(s) == {s[k] : k \in DOMAIN s}

SeqsUpTo(S, n) == UNION {[1..k -> S] : k \in 0..n}

RECURSIVE Concat(_)
\* ''.join(list of strings)
Concat(ss) == IF ss = <<>> THEN <<>> ELSE Head(ss) \o Concat(Tail(ss))

Reverse(s) == [k \in 1..Len(s) |-> s[Len(s) + 1 - k]]

\* str.startswith
startswith(s, prefix) ==
    /\ Len(s) >= Len(prefix)
    /\ SubSeq(s, 1, Len(prefix)) = prefix

RECURSIVE lstrip(_, _)
\* str.lstrip(chars): drops every leading token that is in chars
lstrip(s, chars) ==
    IF s # <<>> /\ Head(s) \in chars THEN lstrip(Tail(s), chars) ELSE s

RECURSIVE split(_, _)
\* str.split(sep): the segments between the occurrences of sep
split(s, sep) ==
    IF \A k \in DOMAIN s : s[k] # sep
    THEN <<s>>
    ELSE LET k == CHOOSE n \in DOMAIN s : s[n] = sep /\ \A m \in 1..(n-1) : s[m] # sep
         IN  <<SubSeq(s, 1, k - 1)>> \o split(SubSeq(s, k + 1, Len(s)), sep)

Digit(d) == <<"0", "1", "2", "3", "4", "5", "6", "7", "8", "9">>[d + 1]

RECURSIVE str_int(_)
\* "{0}".format(n) of a non-negative int: its decimal digits
str_int(n) == IF n < 10 THEN <<Digit(n)>> ELSE str_int(n \div 10) \o <<Digit(n % 10)>>

\* An argparse value that was not given is None; one that was given is a string.
NoneV == [isNone |-> TRUE, s |-> <<>>]
Str(s) == [isNone |-> FALSE, s |-> s]
\* Python truth of an optional string: neither None nor ''
truthy(v) == ~v.isNone /\ v.s # <<>>

\* --------------------------------------------------------------- parse_args
prog == <<"rhsecapi">>

defaultFields ==
    <<"threat_severity", ",", "bugzilla", ",", "affected_release", ",", "package_state">>

\* The criteria in the order parse_args tests them.
CriteriaNames ==
    <<"before", "after", "bug", "advisory", "severity", "package", "cwe",
      "cvss_score", "cvss3_score">>

\* Mutant of build_searchQuery: --after tested before --before.
build_searchQuery_swapped(o) ==
    LET q0 == <<>>
        q1 == IF truthy(o.after) THEN q0 \o <<"&", "after", "=">> \o o.after.s ELSE q0
        q2 == IF truthy(o.before) THEN q1 \o <<"&", "before", "=">> \o o.before.s ELSE q1
        q3 == IF truthy(o.bug) THEN q2 \o <<"&", "bug", "=">> \o o.bug.s ELSE q2
        q4 == IF truthy(o.advisory) THEN q3 \o <<"&", "advisory", "=">> \o o.advisory.s ELSE q3
        q5 == IF truthy(o.severity) THEN q4 \o <<"&", "severity", "=">> \o o.severity.s ELSE q4
        q6 == IF truthy(o.package) THEN q5 \o <<"&", "package", "=">> \o o.package.s ELSE q5
        q7 == IF truthy(o.cwe) THEN q6 \o <<"&", "cwe", "=">> \o o.cwe.s ELSE q6
        q8 == IF truthy(o.cvss_score) THEN q7 \o <<"&", "cvss_score", "=">> \o o.cvss_score.s ELSE q7
        q9 == IF truthy(o.cvss3_score) THEN q8 \o <<"&", "cvss3_score", "=">> \o o.cvss3_score.s ELSE q8
    IN  IF truthy(o.rawquery) THEN q9 \o <<"&">> \o o.rawquery.s ELSE q9

\* o.searchQuery as parse_args builds it: one "if o.x: o.searchQuery += ..." per line
build_searchQuery(o) ==
    LET q0 == <<>>
        q1 == IF truthy(o.before) THEN q0 \o <<"&", "before", "=">> \o o.before.s ELSE q0
        q2 == IF truthy(o.after) THEN q1 \o <<"&", "after", "=">> \o o.after.s ELSE q1
        q3 == IF truthy(o.bug) THEN q2 \o <<"&", "bug", "=">> \o o.bug.s ELSE q2
        q4 == IF truthy(o.advisory) THEN q3 \o <<"&", "advisory", "=">> \o o.advisory.s ELSE q3
        q5 == IF truthy(o.severity) THEN q4 \o <<"&", "severity", "=">> \o o.severity.s ELSE q4
        q6 == IF truthy(o.package) THEN q5 \o <<"&", "package", "=">> \o o.package.s ELSE q5
        q7 == IF truthy(o.cwe) THEN q6 \o <<"&", "cwe", "=">> \o o.cwe.s ELSE q6
        q8 == IF truthy(o.cvss_score) THEN q7 \o <<"&", "cvss_score", "=">> \o o.cvss_score.s ELSE q7
        q9 == IF truthy(o.cvss3_score) THEN q8 \o <<"&", "cvss3_score", "=">> \o o.cvss3_score.s ELSE q8
    IN  IF truthy(o.rawquery) THEN q9 \o <<"&">> \o o.rawquery.s ELSE q9

\* ------------------------------------------------------------------ jprint
\* json.dumps(x, sort_keys=True, indent=2) of the values the program prints.
\* A JSON text is built from members already serialised one level deeper.
Ind(d) == [k \in 1..d |-> "  "]

\* A JSON string: quoted, a newline escaped.
JStr(s) == <<"\"">> \o [k \in 1..Len(s) |-> IF s[k] = NL THEN "\\n" ELSE s[k]] \o <<"\"">>

RECURSIVE JItems(_, _)
\* The items of a container at depth d, one per line, separated by ", ".
JItems(items, d) ==
    IF items = <<>> THEN <<>>
    ELSE Ind(d + 1) \o Head(items)
         \o (IF Len(items) > 1 THEN <<", ">> ELSE <<>>) \o <<NL>>
         \o JItems(Tail(items), d)

JList(items, d) ==
    IF items = <<>> THEN <<"[]">> ELSE <<"[", NL>> \o JItems(items, d) \o Ind(d) \o <<"]">>

\* members: a sequence of <<key, serialised value>> in sorted key order
JObj(members, d) ==
    IF members = <<>> THEN <<"{}">>
    ELSE <<"{", NL>>
         \o JItems([k \in 1..Len(members) |->
                       <<"\"", members[k][1], "\"", ": ">> \o members[k][2]], d)
         \o Ind(d) \o <<"}">>

RECURSIVE Members(_, _)
\* The keys of the sorted list keys that vals carries, each with its
\* serialised value.
Members(keys, vals) ==
    IF keys = <<>> THEN <<>>
    ELSE (IF Head(keys) \in DOMAIN vals
          THEN << <<Head(keys), vals[Head(keys)]>> >> ELSE <<>>)
         \o Members(Tail(keys), vals)

\* An object whose values are all strings.
JFlat(f, keys, d) == JObj(Members(keys, [k \in DOMAIN f |-> JStr(f[k])]), d)

\* A free text: one string, or a list of strings.
JText(t, d) ==
    IF t.isList THEN JList([k \in 1..Len(t.l) |-> JStr(t.l[k])], d) ELSE JStr(t.s)

ReleaseKeys == <<"advisory", "package", "product_name">>
StateKeys == <<"fix_state", "package_name", "product_name">>

\* A list-or-single-object field: one object, or a list of objects.
JMulti(v, keys, d) ==
    IF v.isDict THEN JFlat(v.d, keys, d)
    ELSE JList([k \in 1..Len(v.l) |-> JFlat(v.l[k], keys, d + 1)], d)

\* sort_keys=True: the keys of a CVE record in ASCII order
CveKeys ==
    <<"acknowledgement", "affected_release", "bugzilla", "cvss", "cvss3", "cwe",
      "details", "name", "package_state", "public_date", "statement",
      "threat_severity">>

jprint_cve(j) ==
    JObj(Members(CveKeys, [k \in DOMAIN j |->
        CASE k \in {"acknowledgement", "details", "statement"} -> JText(j[k], 1)
          [] k = "affected_release" -> JMulti(j[k], ReleaseKeys, 1)
          [] k = "package_state" -> JMulti(j[k], StateKeys, 1)
          [] k = "bugzilla" -> JFlat(j[k], <<"id", "url">>, 1)
          [] k = "cvss" -> JFlat(j[k], <<"cvss_base_score", "cvss_scoring_vector">>, 1)
          [] k = "cvss3" -> JFlat(j[k], <<"cvss3_base_score", "cvss3_scoring_vector">>, 1)
          [] OTHER -> JStr(j[k])]), 0)

\* A search returns a list of records; "CVE" sorts before "severity".
jprint_search(result) ==
    JList([k \in 1..Len(result) |-> JFlat(result[k], <<"CVE", "severity">>, 1)], 0)

\* -------------------------------------------------- textwrap.TextWrapper
\* A free text is spelled one character per token.
Whitespace == {" ", NL}

\* chunk.strip() == ''
IsBlank(chunk) == \A k \in DOMAIN chunk : chunk[k] \in Whitespace

RECURSIVE strip(_)
\* str.strip(): the surrounding whitespace dropped
strip(s) ==
    IF s = <<>> THEN s
    ELSE IF Head(s) \in Whitespace THEN strip(Tail(s))
    ELSE IF s[Len(s)] \in Whitespace THEN strip(SubSeq(s, 1, Len(s) - 1))
    ELSE s

RECURSIVE sub_newlines(_)
\* re.sub(r"\n+", "  ", text): every run of newlines becomes two spaces
sub_newlines(s) ==
    IF s = <<>> THEN s
    ELSE IF Head(s) = NL
         THEN <<" ", " ">> \o sub_newlines(lstrip(s, {NL}))
         ELSE <<Head(s)>> \o sub_newlines(Tail(s))

\* TextWrapper._munge_whitespace: every whitespace character becomes a space
munge_whitespace(s) == [k \in 1..Len(s) |-> IF s[k] \in Whitespace THEN " " ELSE s[k]]

RECURSIVE wrap_split(_)
\* TextWrapper._split: the runs of spaces and the words between them
wrap_split(s) ==
    IF s = <<>> THEN <<>>
    ELSE LET sp == (Head(s) = " ")
             n  == CHOOSE m \in 1..Len(s) :
                       /\ \A k \in 1..m : (s[k] = " ") = sp
                       /\ m = Len(s) \/ (s[m + 1] = " ") # sp
         IN  <<SubSeq(s, 1, n)>> \o wrap_split(SubSeq(s, n + 1, Len(s)))

RECURSIVE wrap_fit(_, _, _)
\* "while chunks: if cur_len + l <= width: pop": how many leading chunks go on
\* the current line
wrap_fit(chunks, cur_len, width) ==
    IF chunks # <<>> /\ cur_len + Len(Head(chunks)) <= width
    THEN 1 + wrap_fit(Tail(chunks), cur_len + Len(Head(chunks)), width)
    ELSE 0

wrap_indent == <<" ", " ", " ">>

RECURSIVE wrap_chunks(_, _, _)
\* TextWrapper._wrap_chunks with initial_indent = subsequent_indent = "   ",
\* break_long_words and drop_whitespace (the defaults); W is self.width > 0
wrap_chunks(chunks, lines, W) ==
    IF chunks = <<>> THEN lines
    ELSE LET width == W - Len(wrap_indent)
             c1 == IF IsBlank(Head(chunks)) /\ lines # <<>> THEN Tail(chunks) ELSE chunks
             n == wrap_fit(c1, 0, width)
             cur == SubSeq(c1, 1, n)
             cur_len == Len(Concat(cur))
             rest == SubSeq(c1, n + 1, Len(c1))
             long == rest # <<>> /\ Len(Head(rest)) > width
             space_left == IF width < 1 THEN 1 ELSE width - cur_len
             cur2 == IF long THEN Append(cur, SubSeq(Head(rest), 1, space_left)) ELSE cur
             rest2 == IF long
                      THEN <<SubSeq(Head(rest), space_left + 1, Len(Head(rest)))>> \o Tail(rest)
                      ELSE rest
             cur3 == IF cur2 # <<>> /\ IsBlank(cur2[Len(cur2)])
                     THEN SubSeq(cur2, 1, Len(cur2) - 1) ELSE cur2
             lines2 == IF cur3 # <<>> THEN Append(lines, wrap_indent \o Concat(cur3)) ELSE lines
         IN  wrap_chunks(rest2, lines2, W)

\* TextWrapper.wrap(text)
wrap(text, W) == wrap_chunks(wrap_split(munge_whitespace(text)), <<>>, W)

RECURSIVE join_lines(_)
\* "\n".join(lines)
join_lines(lines) ==
    IF lines = <<>> THEN <<>>
    ELSE IF Len(lines) = 1 THEN Head(lines)
    ELSE Head(lines) \o <<NL>> \o join_lines(Tail(lines))

RECURSIVE stripjoin_list(_)
\* "for i in input: text += i.strip(); text += '  '"
stripjoin_list(l) ==
    IF l = <<>> THEN <<>> ELSE strip(Head(l)) \o <<" ", " ">> \o stripjoin_list(Tail(l))

\* RHSecApiParse._stripjoin; self.w is 0 or the wrapper's width
stripjoin(self, input) ==
    LET text0 == IF input.isList THEN stripjoin_list(input.l) ELSE strip(input.s)
        text1 == sub_newlines(text0)
    IN  IF self.w # 0 THEN <<NL>> \o join_lines(wrap(text1, self.w)) ELSE text1

\* ------------------------------------------------- RHSecApiParse.print_cve
\* jsoninput.has_key(field)
has_key(j, field) == field \in DOMAIN j

\* "field in self.desiredFields": desiredFields holds the segments of --fields
desired(self, field) == <<field>> \in Range(self.desiredFields)

\* RHSecApiParse._check_field
check_field(self, field, j) == desired(self, field) /\ has_key(j, field)

\* Mutant of normalize_multi: a bare object is iterated as if it were empty.
normalize_multi_list_only(v) == IF v.isDict THEN <<>> ELSE v.l

\* "if isinstance(x, dict): x = [x]"
normalize_multi(v) == IF v.isDict THEN <<v.d>> ELSE v.l

\* One line of AFFECTED_RELEASE
release_line(self, release) ==
    LET package == IF has_key(release, "package")
                   THEN <<" [">> \o release["package"] \o <<"]">> ELSE <<>>
        advisory == IF self.printUrls
                    THEN <<"https://access.redhat.com/errata/">> \o release["advisory"]
                    ELSE release["advisory"]
    IN  <<"   ">> \o release["product_name"] \o package \o <<": ">> \o advisory \o <<NL>>

\* One line of PACKAGE_STATE
state_line(self, state) ==
    LET package_name == IF has_key(state, "package_name")
                        THEN <<" [">> \o state["package_name"] \o <<"]">> ELSE <<>>
    IN  <<"   ">> \o state["fix_state"] \o <<": ">> \o state["product_name"]
        \o package_name \o <<NL>>

\* The label that opens the line (or the section) of each field.
Label(field) ==
    CASE field = "threat_severity" -> "  IMPACT:  "
      [] field = "public_date" -> "  PUBLIC_DATE:  "
      [] field = "cwe" -> "  CWE:  "
      [] field = "cvss" -> "  CVSS:  "
      [] field = "cvss3" -> "  CVSS3:  "
      [] field = "bugzilla" -> "  BUGZILLA:  "
      [] field = "acknowledgement" -> "  ACKNOWLEDGEMENT:  "
      [] field = "details" -> "  DETAILS:  "
      [] field = "statement" -> "  STATEMENT:  "
      [] field = "affected_release" -> "  AFFECTED_RELEASE (ERRATA)"
      [] field = "package_state" -> "  PACKAGE_STATE"

NoBugzilla == "No Bugzilla data"
BugzillaGuidance ==
    "   Too new or too old? See: https://bugzilla.redhat.com/show_bug.cgi?id=CVE_legacy"

\* Mutant of render_bugzilla: an absent bugzilla is skipped like any other field.
render_bugzilla_silent(self, j) ==
    IF check_field(self, "bugzilla", j)
    THEN <<Label("bugzilla")>>
         \o (IF self.printUrls THEN j["bugzilla"]["url"] ELSE j["bugzilla"]["id"]) \o <<NL>>
    ELSE <<>>

\* "if 'bugzilla' in self.desiredFields: ..."
render_bugzilla(self, j) ==
    IF desired(self, "bugzilla")
    THEN IF has_key(j, "bugzilla")
         THEN <<Label("bugzilla")>>
              \o (IF self.printUrls THEN j["bugzilla"]["url"] ELSE j["bugzilla"]["id"])
              \o <<NL>>
         ELSE <<Label("bugzilla"), NoBugzilla, NL, BugzillaGuidance, NL>>
    ELSE <<>>

\* What print_cve prints for one field: the "if" of that field and its body.
render_field(self, field, j) ==
    CASE field = "bugzilla" -> render_bugzilla(self, j)
      [] ~check_field(self, field, j) /\ field # "bugzilla" -> <<>>
      [] field = "threat_severity" /\ check_field(self, field, j) ->
            <<Label(field)>> \o j[field]
            \o (IF self.printUrls
                THEN <<" (https://access.redhat.com/security/updates/classification)">>
                ELSE <<>>)
            \o <<NL>>
      [] field = "public_date" /\ check_field(self, field, j) ->
            <<Label(field)>> \o j[field] \o <<NL>>
      [] field = "cwe" /\ check_field(self, field, j) ->
            <<Label(field)>> \o j[field]
            \o (IF self.printUrls
                THEN <<" (http://cwe.mitre.org/data/definitions/">>
                     \o lstrip(j[field], {"C", "W", "E", "-"}) \o <<".html)">>
                ELSE <<>>)
            \o <<NL>>
      [] field = "cvss" /\ check_field(self, field, j) ->
            <<Label(field)>> \o j[field]["cvss_base_score"] \o <<" [">>
            \o (IF self.printUrls
                THEN <<"http://nvd.nist.gov/cvss.cfm?version=2&vector=(">>
                     \o j[field]["cvss_scoring_vector"] \o <<")">>
                ELSE j[field]["cvss_scoring_vector"])
            \o <<"]", NL>>
      [] field = "cvss3" /\ check_field(self, field, j) ->
            <<Label(field)>> \o j[field]["cvss3_base_score"] \o <<" [">>
            \o (IF self.printUrls
                THEN <<"https://www.first.org/cvss/calculator/3.0#">>
                     \o j[field]["cvss3_scoring_vector"]
                ELSE j[field]["cvss3_scoring_vector"])
            \o <<"]", NL>>
      [] field \in {"acknowledgement", "details", "statement"}
         /\ check_field(self, field, j) ->
            <<Label(field)>> \o stripjoin(self, j[field]) \o <<NL>>
      [] field = "affected_release" /\ check_field(self, field, j) ->
            LET affected_release == normalize_multi(j[field])
            IN  <<Label(field), NL>>
                \o Concat([k \in 1..Len(affected_release) |->
                              release_line(self, affected_release[k])])
      [] field = "package_state" /\ check_field(self, field, j) ->
            LET package_state == normalize_multi(j[field])
            IN  <<Label(field), NL>>
                \o Concat([k \in 1..Len(package_state) |->
                              state_line(self, package_state[k])])

\* The fields in the order print_cve tests them.
FieldOrder ==
    <<"threat_severity", "public_date", "cwe", "cvss", "cvss3", "bugzilla",
      "acknowledgement", "details", "statement", "affected_release", "package_state">>

FieldNames == Range(FieldOrder)

\* "{0}{1}{2}\n".format(cve, name, url): the CVE name is always printed
header_line(self, cve, j) ==
    LET name == IF cve # j["name"] THEN <<" [">> \o j["name"] \o <<"]">> ELSE <<>>
        url == IF self.printUrls
               THEN <<" (https://access.redhat.com/security/cve/">> \o cve \o <<")">>
               ELSE <<>>
    IN  cve \o name \o url \o <<NL>>

\* Mutant of print_cve_fields: the fields are printed in the order of --fields.
print_cve_fields_as_listed(self, j) ==
    Concat([k \in 1..Len(self.desiredFields) |->
               IF Len(self.desiredFields[k]) = 1 /\ self.desiredFields[k][1] \in FieldNames
               THEN render_field(self, self.desiredFields[k][1], j)
               ELSE <<>>])

\* The run of "if self._check_field(...)" blocks of print_cve, in source order.
print_cve_fields(self, j) ==
    Concat([k \in 1..Len(FieldOrder) |-> render_field(self, FieldOrder[k], j)])

\* Mutant of print_cve_text: the final newline is forgotten.
print_cve_text_no_final_newline(self, cve, j) ==
    header_line(self, cve, j)
    \o (IF self.desiredFields = <<>> THEN <<>> ELSE print_cve_fields(self, j))

\* What print_cve prints in fielded text mode for a record it fetched.
print_cve_text(self, cve, j) ==
    header_line(self, cve, j)
    \o (IF self.desiredFields = <<>> THEN <<>>
        ELSE print_cve_fields(self, j) \o <<NL>>)

\* What print_cve prints when the fetch raised requests.exceptions.HTTPError.
print_cve_not_found(self, cve) ==
    IF ~self.onlyCount
    THEN cve \o <<NL, " Not present in Red Hat CVE database", NL>>
         \o (IF startswith(cve, <<"CVE-">>)
             THEN <<" Try https://cve.mitre.org/cgi-bin/cvename.cgi?name=">> \o cve \o <<NL, NL>>
             ELSE <<>>)
    ELSE <<>>

\* -------------------------------------------------------------------- state
VARIABLES
    opts,        \* the argparse namespace o / opts
    a,           \* the RHSecApiParse object main constructs
    result,      \* main's local: what search_query returned
    i,           \* main's "for cve in opts.cves": index of the next CVE
    pc,          \* where the run is
    exitStatus,  \* the process's exit status, -1 while it runs
    stdout,      \* what was written to the terminal
    stderr,      \* what was written to the side channel
    api,         \* the environment: what the API may answer
    tty,         \* the environment: the terminal on fd 0
    argv_cves,   \* history: the CVEs given on the command line
    searchLog,   \* history: the params of every search request sent
    fetchLog,    \* history: every CVE request sent, with how it ended
    pasteLog,    \* history: every text posted to the pastebin
    printed,     \* history: everything handed to self.Print so far
    last         \* history: the record the last print_cve got and what it printed

vars == <<opts, a, result, i, pc, exitStatus, stdout, stderr, api, tty,
          argv_cves, searchLog, fetchLog, pasteLog, printed, last>>

\* -------------------------------------------------- RedHatSecDataApiClient
\* What requests.get can do: fail to connect, time out, or answer with a
\* status and a JSON body.
NoBody == [name |-> <<>>]
Response(status, body) == [exc |-> "none", status |-> status, body |-> body]
ConnectionFailure == [exc |-> "ConnectionError", status |-> 0, body |-> NoBody]
TimedOut == [exc |-> "Timeout", status |-> 0, body |-> NoBody]

\* Response.raise_for_status: HTTPError on every 4xx and every 5xx
raise_for_status(status) == 400 <= status /\ status < 600

\* RedHatSecDataApiClient.__get: the exception class that reaches the caller
\* ("none": it returns r.json()).  Timeout is a RequestException that is
\* neither a ConnectionError nor an HTTPError.
get_raises(resp) ==
    IF resp.exc # "none" THEN resp.exc
    ELSE IF raise_for_status(resp.status) THEN "HTTPError"
    ELSE "none"

\* How a request ended, for the history.
Outcome(resp) ==
    IF resp.exc # "none" THEN resp.exc
    ELSE IF 400 <= resp.status /\ resp.status < 500 THEN "HTTP4xx"
    ELSE IF 500 <= resp.status /\ resp.status < 600 THEN "HTTP5xx"
    ELSE "ok"

\* "Getting '{0}' ..." when --verbose
progress(verbose, url) ==
    IF verbose THEN <<"Getting '">> \o url \o <<"' ...", NL>> ELSE <<>>

apiurl == <<"https://access.redhat.com/labs/securitydataapi">>

\* _search: '/cve.json' and, with params, '?' + params
search_url(params) ==
    apiurl \o <<"/", "cve", ".json">> \o (IF params # <<>> THEN <<"?">> \o params ELSE <<>>)

\* _retrieve: '/cve/<query>.json'
retrieve_url(query) == apiurl \o <<"/", "cve", "/">> \o query \o <<".json">>

\* "{0}: {1}".format(prog, e) on stderr
error_line(exc) == prog \o <<": ", exc, NL>>

\* ------------------------------------------------------------ the two sinks
\* Mutant of paste_printer: the buffer is replaced, not extended.
paste_printer_overwrite(self, text) == [self EXCEPT !.output = text]

\* RHSecApiParse.paste_printer: self.output += text
paste_printer(self, text) == [self EXCEPT !.output = @ \o text]

\* RHSecApiParse.Print, which __init__ rebinds to paste_printer under --pastebin:
\* the terminal after self.Print(text)
Print_stdout(self, out, text) == IF self.toPaste THEN out ELSE out \o text

\* the object after self.Print(text)
Print_self(self, text) == IF self.toPaste THEN paste_printer(self, text) ELSE self

\* ------------------------------------------------------- print_cve, whole
\* Mutant of except_exits: an HTTPError ends the run like the other two.
except_exits_all(raised) == raised \in {"ConnectionError", "HTTPError", "Timeout"}

\* The except clauses of print_cve that call exit(1): ConnectionError and the
\* final RequestException (which a Timeout reaches); HTTPError returns instead.
except_exits(raised) == raised \in {"ConnectionError", "Timeout"}

\* "if self.onlyCount: self.cveCount += 1", reached only when nothing was raised
count_after(self, raised) ==
    IF raised = "none" /\ self.onlyCount THEN self.cveCount + 1 ELSE self.cveCount

\* Mutant of print_cve_printed: --json is looked at before --count.
print_cve_printed_raw_first(self, cve, resp) ==
    LET raised == get_raises(resp)
    IN  IF except_exits(raised) THEN <<>>
        ELSE IF raised = "HTTPError" THEN print_cve_not_found(self, cve)
        ELSE IF self.rawOutput THEN jprint_cve(resp.body)
        ELSE IF self.onlyCount THEN <<>>
        ELSE print_cve_text(self, cve, resp.body)

\* Everything self.Print receives during print_cve(cve) when the API answers resp.
print_cve_printed(self, cve, resp) ==
    LET raised == get_raises(resp)
    IN  IF except_exits(raised) THEN <<>>
        ELSE IF raised = "HTTPError" THEN print_cve_not_found(self, cve)
        ELSE IF self.onlyCount THEN <<>>
        ELSE IF self.rawOutput THEN jprint_cve(resp.body)
        ELSE print_cve_text(self, cve, resp.body)

\* ------------------------------------------------------------------ actions
\* o = p.parse_args() and the lines after it: the query is built, and without
\* a query and without CVEs (or with --help) the help is shown and the run ends.
parse_args ==
    /\ pc = "parse_args"
    /\ LET o == [opts EXCEPT !.searchQuery = build_searchQuery(opts)]
       IN  /\ opts' = o
           /\ IF o.showHelp \/ ~(Len(o.searchQuery) > 0 \/ o.cves # <<>>)
              THEN /\ stdout' = stdout \o <<"usage: rhsecapi", NL>>
                   /\ pc' = "help"
                   /\ exitStatus' = 0
              ELSE /\ pc' = "main"
                   /\ UNCHANGED <<stdout, exitStatus>>
    /\ UNCHANGED <<a, result, i, stderr, api, tty, argv_cves, searchLog, fetchLog,
                   pasteLog, printed, last>>

\* fields.split(",") guarded by len(fields)
parse_fields(fields) == IF Len(fields) > 0 THEN split(fields, ",") ELSE <<>>

\* a = RHSecApiParse(...): __init__.  With the default wrapWidth of 1 the
\* terminal is asked for its width, which raises when fd 0 is no terminal.
RHSecApiParse_init ==
    /\ pc = "main"
    /\ IF opts.wrapWidth = 1 /\ ~tty.isatty
       THEN /\ pc' = "traceback"
            /\ exitStatus' = 1
            /\ stderr' = stderr \o <<"Traceback", NL>>
            /\ UNCHANGED a
       ELSE /\ a' = [desiredFields |-> parse_fields(opts.fields),
                     printUrls |-> opts.printUrls,
                     rawOutput |-> opts.json,
                     output |-> <<>>,
                     toPaste |-> opts.pastebin,
                     onlyCount |-> opts.count,
                     cveCount |-> 0,
                     verbose |-> opts.verbose,
                     w |-> IF opts.wrapWidth = 1 THEN tty.cols - 2 ELSE opts.wrapWidth]
            /\ pc' = IF Len(opts.searchQuery) > 0 THEN "search" ELSE "cves"
            /\ UNCHANGED <<exitStatus, stderr>>
    /\ UNCHANGED <<opts, result, i, stdout, api, tty, argv_cves, searchLog, fetchLog,
                   pasteLog, printed, last>>

\* result = a.search_query(opts.searchQuery): every exception ends the run
search_query ==
    /\ pc = "search"
    /\ \E resp \in api.search :
          LET raised == get_raises(resp)
              shown == progress(a.verbose, search_url(opts.searchQuery))
          IN  /\ searchLog' = Append(searchLog, opts.searchQuery)
              /\ IF raised # "none"
                 THEN /\ stderr' = stderr \o shown \o error_line(raised)
                      /\ pc' = "exit1"
                      /\ exitStatus' = 1
                      /\ UNCHANGED result
                 ELSE /\ stderr' = stderr \o shown
                                   \o <<"Search query results found: ">>
                                   \o str_int(Len(resp.body)) \o <<NL>>
                                   \o (IF ~a.onlyCount THEN <<NL>> ELSE <<>>)
                      /\ result' = resp.body
                      /\ pc' = "search_done"
                      /\ UNCHANGED exitStatus
    /\ UNCHANGED <<opts, a, i, stdout, api, tty, argv_cves, fetchLog, pasteLog, printed,
                   last>>

\* Mutant of extracted: the extracted CVEs come in reverse order.
extracted_reversed(res) == Reverse([k \in 1..Len(res) |-> res[k]["CVE"]])

\* "for i in result: opts.cves.append(i['CVE'])": what is appended
extracted(res) == [k \in 1..Len(res) |-> res[k]["CVE"]]

\* What main prints of the search result: nothing under --extract-search,
\* nothing under --count, else the JSON and a newline.
search_shown(o, res) ==
    IF o.extract_search THEN <<>>
    ELSE IF ~o.count THEN jprint_search(res) \o <<NL>>
    ELSE <<>>

\* main, after search_query returned
main_search_result ==
    /\ pc = "search_done"
    /\ opts' = IF opts.extract_search
               THEN [opts EXCEPT !.cves = @ \o extracted(result)]
               ELSE opts
    /\ a' = Print_self(a, search_shown(opts, result))
    /\ stdout' = Print_stdout(a, stdout, search_shown(opts, result))
    /\ pc' = "cves"
    /\ printed' = printed \o search_shown(opts, result)
    /\ UNCHANGED <<result, i, exitStatus, stderr, api, tty, argv_cves, searchLog,
                   fetchLog, pasteLog, last>>

\* Mutant of loop_cve: the list is walked from its end.
loop_cve_backwards(o, k) == o.cves[Len(o.cves) + 1 - k]

\* "for cve in opts.cves": the CVE of the k-th turn of the loop
loop_cve(o, k) == o.cves[k]

\* One turn of "for cve in opts.cves: a.print_cve(cve)"
print_cve ==
    /\ pc = "cves"
    /\ i <= Len(opts.cves)
    /\ \E resp \in api.cve :
          LET cve == loop_cve(opts, i)
              raised == get_raises(resp)
              text == print_cve_printed(a, cve, resp)
              counted == [a EXCEPT !.cveCount = count_after(a, raised)]
          IN  /\ fetchLog' = Append(fetchLog, [cve |-> cve, outcome |-> Outcome(resp)])
              /\ last' = [body |-> resp.body, text |-> text]
              /\ printed' = printed \o text
              /\ stderr' = stderr \o progress(a.verbose, retrieve_url(cve))
                           \o (IF raised # "none" THEN error_line(raised) ELSE <<>>)
              /\ a' = Print_self(counted, text)
              /\ stdout' = Print_stdout(a, stdout, text)
              /\ IF except_exits(raised)
                 THEN /\ pc' = "exit1"
                      /\ exitStatus' = 1
                      /\ UNCHANGED i
                 ELSE /\ i' = i + 1
                      /\ UNCHANGED <<pc, exitStatus>>
    /\ UNCHANGED <<opts, result, api, tty, argv_cves, searchLog, pasteLog>>

\* Mutant of count_report: the invalid count repeats the valid one.
count_report_same(o, self) ==
    IF o.cves # <<>> /\ o.count
    THEN <<"Valid CVE results found: ">> \o str_int(self.cveCount) \o <<" of ">>
         \o str_int(Len(o.cves)) \o <<NL>>
         \o <<"Invalid CVE queries: ">> \o str_int(self.cveCount)
         \o <<" of ">> \o str_int(Len(o.cves)) \o <<NL>>
    ELSE <<>>

\* "if opts.cves: ... if opts.count: print(..., file=stderr)"
count_report(o, self) ==
    IF o.cves # <<>> /\ o.count
    THEN <<"Valid CVE results found: ">> \o str_int(self.cveCount) \o <<" of ">>
         \o str_int(Len(o.cves)) \o <<NL>>
         \o <<"Invalid CVE queries: ">> \o str_int(Len(o.cves) - self.cveCount)
         \o <<" of ">> \o str_int(Len(o.cves)) \o <<NL>>
    ELSE <<>>

\* main, after the loop: the counts, then the pastebin or the end
main_after_loop ==
    /\ pc = "cves"
    /\ i > Len(opts.cves)
    /\ stderr' = stderr \o count_report(opts, a)
    /\ IF opts.pastebin
       THEN /\ pc' = "paste"
            /\ UNCHANGED exitStatus
       ELSE /\ pc' = "returned"
            /\ exitStatus' = 0
    /\ UNCHANGED <<opts, a, result, i, stdout, api, tty, argv_cves, searchLog, fetchLog,
                   pasteLog, printed, last>>

\* fpaste_it(a.output, ...): one POST; the sink answers with a paste id, with
\* an error payload (exit(1)), or the POST fails (an exception nobody catches)
fpaste_it ==
    /\ pc = "paste"
    /\ pasteLog' = Append(pasteLog, a.output)
    /\ \E answer \in {"id", "error", "failed"} :
          IF answer = "id"
          THEN /\ stdout' = stdout \o <<"http://paste.fedoraproject.org", "/", "id", NL>>
               /\ pc' = "returned"
               /\ exitStatus' = 0
               /\ UNCHANGED stderr
          ELSE IF answer = "error"
          THEN /\ stdout' = stdout \o JObj(<< <<"error", JStr(<<"err">>)>> >>, 0) \o <<NL>>
               /\ pc' = "paste_exit1"
               /\ exitStatus' = 1
               /\ UNCHANGED stderr
          ELSE /\ stderr' = stderr \o <<"Traceback", NL>>
               /\ pc' = "traceback"
               /\ exitStatus' = 1
               /\ UNCHANGED stdout
    /\ UNCHANGED <<opts, a, result, i, api, tty, argv_cves, searchLog, fetchLog, printed,
                   last>>

\* ------------------------------------------------------- the runs explored
\* The namespace argparse returns when no option is given (the defaults of
\* parse_args); searchQuery is set by parse_args.
BaseOpts ==
    [before |-> NoneV, after |-> NoneV, bug |-> NoneV, advisory |-> NoneV,
     severity |-> NoneV, package |-> NoneV, cwe |-> NoneV, cvss_score |-> NoneV,
     cvss3_score |-> NoneV, rawquery |-> NoneV,
     cves |-> <<>>, extract_search |-> FALSE, fields |-> defaultFields,
     json |-> FALSE, printUrls |-> FALSE, wrapWidth |-> 1, count |-> FALSE,
     verbose |-> FALSE, pastebin |-> FALSE, showHelp |-> FALSE,
     searchQuery |-> <<>>]

\* Before main constructs it there is no RHSecApiParse object.
NoObject ==
    [desiredFields |-> <<>>, printUrls |-> FALSE, rawOutput |-> FALSE, output |-> <<>>,
     toPaste |-> FALSE, onlyCount |-> FALSE, cveCount |-> 0, verbose |-> FALSE, w |-> 0]

\* Identifiers: one that starts with "CVE-", one that does not.
I1 == <<"CVE-", "2016-1">>
I2 == <<"foo">>
Ids == {I1, I2}

\* A free text given as one string, or as a list of fragments.
TextStr(s) == [isList |-> FALSE, s |-> s, l |-> <<>>]
TextList(l) == [isList |-> TRUE, s |-> <<>>, l |-> l]

\* A list-or-single-object field as the API sends it.
NoObj == [product_name |-> <<>>]
Single(d) == [isDict |-> TRUE, d |-> d, l |-> <<>>]
Many(l) == [isDict |-> FALSE, d |-> NoObj, l |-> l]

R1 == [product_name |-> <<"RHEL 7">>, package |-> <<"httpd-2.4">>, advisory |-> <<"RHSA-1">>]
R2 == [product_name |-> <<"RHEL 6">>, advisory |-> <<"RHSA-2">>]
P1 == [product_name |-> <<"RHEL 5">>, package_name |-> <<"httpd">>, fix_state |-> <<"Not affected">>]
P2 == [product_name |-> <<"JBoss">>, fix_state |-> <<"Will not fix">>]

\* A record that carries every field.
FullRecord ==
    [name |-> I1,
     threat_severity |-> <<"Moderate">>,
     public_date |-> <<"2016-07-18">>,
     cwe |-> <<"C", "W", "E", "-", "2", "0">>,
     cvss |-> [cvss_base_score |-> <<"5.0">>, cvss_scoring_vector |-> <<"AV:N">>],
     cvss3 |-> [cvss3_base_score |-> <<"5.1">>, cvss3_scoring_vector |-> <<"CVSS:3.0">>],
     bugzilla |-> [id |-> <<"1353755">>, url |-> <<"https://bugzilla.redhat.com/1353755">>],
     acknowledgement |-> TextStr(<<"a", "b", " ", "c">>),
     details |-> TextList(<< <<" ", "a", NL, NL, "b">>, <<"c", "d", "e", "f", " ">> >>),
     statement |-> TextStr(<<"a", NL, "b", " ", " ", "c", "d", NL>>),
     affected_release |-> Many(<<R1, R2>>),
     package_state |-> Many(<<P1, P2>>)]

Restrict(f, keys) == [k \in keys |-> f[k]]

\* Which fields a record carries: all, none, all but one, only one.
Presences ==
    {FieldNames, {}} \cup {FieldNames \ {f} : f \in FieldNames} \cup {{f} : f \in FieldNames}

\* The shapes of the two list-or-single-object fields.
ReleaseShapes == {Single(R1), Single(R2), Many(<<R1>>), Many(<<R2>>), Many(<<>>)}
StateShapes == {Single(P1), Single(P2), Many(<<P1>>), Many(<<P2>>), Many(<<>>)}

RenderRecords ==
    {Restrict(FullRecord, {"name"} \cup p) : p \in Presences}
    \cup {[FullRecord EXCEPT !["affected_release"] = v] : v \in ReleaseShapes}
    \cup {[FullRecord EXCEPT !["package_state"] = v] : v \in StateShapes}

RECURSIVE join_comma(_)
\* ",".join(names): how a list of field names is written on the command line
join_comma(names) ==
    IF names = <<>> THEN <<>>
    ELSE IF Len(names) = 1 THEN <<Head(names)>>
    ELSE <<Head(names), ",">> \o join_comma(Tail(names))

\* The --fields lists explored: short lists over three names in every order,
\* every single field, the presets (-a, -m, the default) and -a reversed.
SelNames == {"bugzilla", "cwe", "affected_release"}
MostFields ==
    <<"threat_severity", "public_date", "cwe", "cvss", "cvss3", "bugzilla",
      "affected_release", "package_state">>
SelLists ==
    SeqsUpTo(SelNames, MaxSel) \cup {<<f>> : f \in FieldNames}
    \cup {FieldOrder, MostFields, Reverse(FieldOrder),
          <<"threat_severity", "bugzilla", "affected_release", "package_state">>}
\* and two strings that name no field: "," and "bogus"
FieldsStrings == {join_comma(l) : l \in SelLists} \cup {<<",">>, <<"bogus">>}

\* The answers of the API explored by the orchestration runs.
J1 == Restrict(FullRecord, {"name", "threat_severity", "bugzilla"})
S1 == [CVE |-> <<"CVE-", "2016-2">>, severity |-> <<"low">>]
S2 == [CVE |-> <<"CVE-", "2016-3">>, severity |-> <<"critical">>]
CveAnswers ==
    {Response(200, J1), Response(404, NoBody), Response(500, NoBody),
     ConnectionFailure, TimedOut}
SearchFailure(exc) == [exc |-> exc, status |-> 0, body |-> <<>>]

\* What a search may answer: a list of records, or one of the failures.
SearchAnswersOf(lists) ==
    {Response(200, res) : res \in lists}
    \cup {Response(404, <<>>), Response(500, <<>>),
          SearchFailure("ConnectionError"), SearchFailure("Timeout")}

Terminal == [isatty |-> TRUE, cols |-> 8]
NoTerminal == [isatty |-> FALSE, cols |-> 0]

\* The variables every run starts with, given its options and its environment.
Start(o, world, terminal) ==
    /\ opts = o
    /\ api = world
    /\ tty = terminal
    /\ a = NoObject
    /\ result = <<>>
    /\ i = 1
    /\ pc = "parse_args"
    /\ exitStatus = -1
    /\ stdout = <<>>
    /\ stderr = <<>>
    /\ argv_cves = o.cves
    /\ searchLog = <<>>
    /\ fetchLog = <<>>
    /\ pasteLog = <<>>
    /\ printed = <<>>
    /\ last = [body |-> NoBody, text |-> <<>>]

\* Orchestration: every CVE list up to MaxCves, with or without a search,
\* every combination of --count, --json, --pastebin and --extract-search.
RunOpts ==
    {[BaseOpts EXCEPT !.cves = c, !.package = p, !.count = cnt, !.json = js,
                      !.pastebin = pb, !.extract_search = x, !.verbose = cnt /\ js /\ pb] :
        c \in SeqsUpTo(Ids, MaxCves), p \in {NoneV, Str(<<"samba">>)},
        cnt \in BOOLEAN, js \in BOOLEAN, pb \in BOOLEAN, x \in BOOLEAN}
    \cup {[BaseOpts EXCEPT !.showHelp = TRUE, !.cves = <<I1>>]}

Init ==
    \/ \E o \in RunOpts :
          Start(o, [cve |-> CveAnswers,
                    search |-> SearchAnswersOf({<<>>, <<S1, S2>>})], Terminal)
    \/ Start([BaseOpts EXCEPT !.cves = <<I1>>],
             [cve |-> CveAnswers, search |-> SearchAnswersOf({<<>>})], NoTerminal)

\* The search runs: every result list up to MaxResults, with and without
\* CVEs given beside it, under every combination of the four switches.
SearchOpts ==
    {[BaseOpts EXCEPT !.cves = c, !.package = Str(<<"samba">>), !.count = cnt,
                      !.json = js, !.pastebin = pb, !.extract_search = x] :
        c \in {<<>>, <<I2>>, <<I2, I1>>},
        cnt \in BOOLEAN, js \in BOOLEAN, pb \in BOOLEAN, x \in BOOLEAN}
    \cup {[BaseOpts EXCEPT !.cves = <<I1>>, !.extract_search = x] : x \in BOOLEAN}

InitSearch ==
    \E o \in SearchOpts :
        Start(o, [cve |-> {Response(200, J1), Response(404, NoBody)},
                  search |-> SearchAnswersOf(SeqsUpTo({S1, S2}, MaxResults))], Terminal)

\* The query runs: every combination of given and omitted criteria (--before
\* also given as the empty string, --rawquery in two spellings), with and
\* without a CVE beside them.
QueryOpts ==
    {[BaseOpts EXCEPT !.before = v1, !.after = v2, !.bug = v3, !.advisory = v4,
                      !.severity = v5, !.package = v6, !.cwe = v7, !.cvss_score = v8,
                      !.cvss3_score = v9, !.rawquery = v10, !.cves = c] :
        v1 \in {NoneV, Str(<<>>), Str(<<"2016-01-01">>)},
        v2 \in {NoneV, Str(<<"2015-01-01">>)},
        v3 \in {NoneV, Str(<<"1326598">>)},
        v4 \in {NoneV, Str(<<"RHSA-2016:0614">>)},
        v5 \in {NoneV, Str(<<"low">>)},
        v6 \in {NoneV, Str(<<"samba">>)},
        v7 \in {NoneV, Str(<<"295">>)},
        v8 \in {NoneV, Str(<<"8.0">>)},
        v9 \in {NoneV, Str(<<"5.1">>)},
        v10 \in {NoneV, Str(<<"per_page", "=", "500">>),
                 Str(<<"a", "=", "b", "&", "x", "=", "y">>)},
        c \in {<<>>, <<I1>>}}
    \cup {[BaseOpts EXCEPT !.cves = <<I1>>, !.pastebin = TRUE]}

InitQuery ==
    \E o \in QueryOpts :
        Start(o, [cve |-> {Response(200, J1)}, search |-> SearchAnswersOf({<<>>})],
              Terminal)

\* The rendering runs: one CVE, answered with one record of RenderRecords,
\* under every --fields string of FieldsStrings, with and without --urls,
\* wrapping to the terminal or not at all.
RenderOpts ==
    {[BaseOpts EXCEPT !.cves = <<c>>, !.fields = f, !.printUrls = u, !.wrapWidth = w] :
        c \in Ids, f \in FieldsStrings, u \in BOOLEAN, w \in {0, 1}}

InitRender ==
    \/ \E o \in RenderOpts, j \in RenderRecords :
          Start(o, [cve |-> {Response(200, j)}, search |-> SearchAnswersOf({<<>>})],
                Terminal)
    \/ Start([BaseOpts EXCEPT !.cves = <<I1>>, !.package = Str(<<"samba">>),
                              !.pastebin = TRUE],
             [cve |-> {Response(200, J1)}, search |-> SearchAnswersOf({<<>>})], Terminal)

\* The wrapping runs: one CVE whose record carries only details, printed with
\* --fields details under each wrap width.  The texts are every string over a
\* letter, a space and a newline up to MaxText, a few longer ones, and every
\* list of up to MaxFrags fragments.
TextAlphabet == {"a", " ", NL}
LongerTexts ==
    {<<"a", NL, "a", "a", "a", "a">>,
     <<"a", " ", NL, " ", NL, "a">>,
     <<"a", "a", "a", "a", "a", "a", "a", "a">>,
     <<"a", "a", " ", "a", " ", " ", "a", "a", "a", NL, NL, "a">>}
Fragments == {<<>>, <<"a">>, <<" ", "a">>, <<"a", NL>>, <<NL>>}
WrapTexts ==
    {TextStr(t) : t \in SeqsUpTo(TextAlphabet, MaxText) \cup LongerTexts}
    \cup {TextList(l) : l \in SeqsUpTo(Fragments, MaxFrags)}

\* -w 0 (no wrapping), the default 1 (the terminal's width less 2) and three
\* explicit widths
WrapWidths == {0, 1, 4, 5, 10}

WrapOpts ==
    {[BaseOpts EXCEPT !.cves = <<I1>>, !.fields = <<"details">>, !.wrapWidth = w] :
        w \in WrapWidths}

InitWrap ==
    \/ \E o \in WrapOpts, t \in WrapTexts :
          Start(o, [cve |-> {Response(200, [name |-> I1, details |-> t])},
                    search |-> SearchAnswersOf({<<>>})], Terminal)
    \/ Start([BaseOpts EXCEPT !.cves = <<I1>>, !.package = Str(<<"samba">>),
                              !.pastebin = TRUE],
             [cve |-> {Response(200, J1)}, search |-> SearchAnswersOf({<<>>})], Terminal)

Next ==
    \/ parse_args
    \/ RHSecApiParse_init
    \/ search_query
    \/ main_search_result
    \/ print_cve
    \/ main_after_loop
    \/ fpaste_it

Spec == Init /\ [][Next]_vars

SpecSearch == InitSearch /\ [][Next]_vars

SpecQuery == InitQuery /\ [][Next]_vars

SpecRender == InitRender /\ [][Next]_vars

SpecWrap == InitWrap /\ [][Next]_vars

\* ------------------------------------------------------------------ claims
\* Where the run is once main has left the loop over the CVEs.
AfterLoop == {"paste", "returned", "paste_exit1"} \cup
             (IF pasteLog # <<>> THEN {"traceback"} ELSE {})

\* The requests that ended as k.
Ended(kinds) == {k \in DOMAIN fetchLog : fetchLog[k].outcome \in kinds}

\* C1: a fetch that fails with anything other than an HTTP 4xx (a connection
\* failure, an HTTP 5xx, a timeout) is fatal: it is the last request of the
\* run, the run has ended with exit status 1, and no fallback block was
\* printed for it.
C1_TransportErrorIsFatal ==
    \A k \in Ended({"ConnectionError", "Timeout", "HTTP5xx"}) :
        /\ k = Len(fetchLog)
        /\ pc = "exit1"
        /\ exitStatus = 1
        /\ last.text = <<>>

\* C2: a fetch that fails not-found (HTTP 4xx) does not abort the run: the
\* run is not ended by it, the CVEs are requested one after the other in list
\* order so that the one after a not-found one is the next, the found-counter
\* counts only the successful fetches, and a run that leaves the loop has
\* requested every CVE and, returning from main, exits with status 0.
C2_NotFoundIsRecoverable ==
    /\ \A k \in Ended({"HTTP4xx"}) :
          k = Len(fetchLog) => pc \in {"cves"} \cup AfterLoop
    /\ \A k \in DOMAIN fetchLog : fetchLog[k].cve = opts.cves[k]
    /\ pc = "cves" => i = Len(fetchLog) + 1
    /\ a.onlyCount => a.cveCount = Cardinality(Ended({"ok"}))
    /\ pc \in AfterLoop => Len(fetchLog) = Len(opts.cves)
    /\ pc = "returned" => exitStatus = 0
    /\ (pc = "exit1" /\ fetchLog # <<>>)
          => fetchLog[Len(fetchLog)].outcome \notin {"ok", "HTTP4xx"}

\* A finished run in which a CVE was requested and found after another was
\* not found.
C2_Witness ==
    /\ pc = "returned"
    /\ exitStatus = 0
    /\ \E k \in Ended({"HTTP4xx"}) : k + 1 \in Ended({"ok"})
    /\ opts.count
    /\ a.cveCount = 1

\* The two lines of the count report for n found of m.
CountReport(n, m) ==
    <<"Valid CVE results found: ">> \o str_int(n) \o <<" of ">> \o str_int(m) \o <<NL>>
    \o <<"Invalid CVE queries: ">> \o str_int(m - n) \o <<" of ">> \o str_int(m) \o <<NL>>

\* s ends with t.
EndsWith(s, t) == Len(s) >= Len(t) /\ SubSeq(s, Len(s) - Len(t) + 1, Len(s)) = t

\* The side channel once the loop is left, without the traceback of a failed
\* paste.
SideChannel ==
    IF pc = "traceback" THEN SubSeq(stderr, 1, Len(stderr) - 2) ELSE stderr

\* C3 as stated: in count-only mode, once every CVE of the final list has
\* been processed, the side channel ends with "found N of M, invalid M-N of
\* M", N being the number of successful fetches.
C3_CountReportAlways ==
    (opts.count /\ pc \in AfterLoop)
        => EndsWith(SideChannel, CountReport(Cardinality(Ended({"ok"})), Len(opts.cves)))

\* C3, amended: that holds when the final list is not empty; with an empty
\* final list no count is reported at all.  At every point of the run the
\* counter is the number of successful fetches so far, between 0 and the
\* number of CVEs processed.
C3_CountReport ==
    /\ (opts.count /\ pc \in AfterLoop /\ opts.cves # <<>>)
          => EndsWith(SideChannel,
                      CountReport(Cardinality(Ended({"ok"})), Len(opts.cves)))
    /\ (pc \in AfterLoop /\ opts.cves = <<>>)
          => \A k \in DOMAIN stderr : stderr[k] # "Valid CVE results found: "
    /\ a.onlyCount => a.cveCount = Cardinality(Ended({"ok"}))
    /\ 0 <= a.cveCount /\ a.cveCount <= Len(fetchLog)

\* Count-only, three CVEs of which one was not found: found 2 of 3.
C3_Witness ==
    /\ opts.count
    /\ pc = "returned"
    /\ Len(opts.cves) = 3
    /\ Cardinality(Ended({"HTTP4xx"})) = 1
    /\ Cardinality(Ended({"ok"})) = 2
    /\ EndsWith(stderr, CountReport(2, 3))

\* What fpaste_it itself prints: the paste's URL, or the sink's error.
SinkReplies ==
    {<<"http://paste.fedoraproject.org", "/", "id", NL>>,
     JObj(<< <<"error", JStr(<<"err">>)>> >>, 0) \o <<NL>>}

\* C4: under --pastebin the rendered text is buffered and submitted once, at
\* the end: nothing is posted and nothing reaches the terminal before the
\* last CVE is processed, there is never a second post, what is posted is
\* everything that was rendered, and a run that returns has posted.
C4_PasteOnceAtEnd ==
    a.toPaste =>
        /\ Len(pasteLog) <= 1
        /\ a.output = printed
        /\ pasteLog = <<>> => stdout = <<>>
        /\ pasteLog # <<>> =>
              /\ Len(fetchLog) = Len(opts.cves)
              /\ pc \in {"returned", "paste_exit1", "traceback"}
              /\ pasteLog[1] = printed
              /\ stdout = <<>> \/ stdout \in SinkReplies
        /\ pc = "returned" => Len(pasteLog) = 1

\* A run that printed a search result and two CVE blocks into the buffer and
\* posted them at its end.
C4_Witness ==
    /\ a.toPaste
    /\ pc = "returned"
    /\ Len(searchLog) = 1
    /\ Len(fetchLog) = 2
    /\ Len(pasteLog) = 1
    /\ Len(pasteLog[1]) > Len(last.text)
    /\ last.text # <<>>

\* The 'CVE' key of every record of res, in the order of res.
CveKeysOf(res) == [k \in 1..Len(res) |-> res[k]["CVE"]]

\* The run is past main's handling of the search.
PastSearch == pc \in {"cves"} \cup AfterLoop \/ (pc = "exit1" /\ fetchLog # <<>>)

\* C5: a search request is sent once and before any CVE is requested, and
\* none is sent without a query; under --extract-search the 'CVE' keys of the
\* result are appended to the CVEs of the command line, in result order, and
\* nothing is printed for the search; otherwise the list is left alone and
\* the result's JSON and a newline are printed, except under --count, where
\* nothing is printed for the search.
C5_SearchOnceThenCves ==
    /\ Len(searchLog) <= 1
    /\ pc = "search" => fetchLog = <<>>
    /\ opts.searchQuery = <<>> => searchLog = <<>>
    /\ (PastSearch /\ opts.searchQuery # <<>>) =>
          /\ searchLog = <<opts.searchQuery>>
          /\ opts.cves = argv_cves
                         \o (IF opts.extract_search THEN CveKeysOf(result) ELSE <<>>)
          /\ LET shown == IF opts.extract_search \/ opts.count THEN <<>>
                          ELSE jprint_search(result) \o <<NL>>
             IN  /\ SubSeq(printed, 1, Len(shown)) = shown
                 /\ fetchLog = <<>> => printed = shown
    /\ (PastSearch /\ opts.searchQuery = <<>>) => opts.cves = argv_cves

\* Two records were found and their CVEs requested after the one given on the
\* command line.
C5_Witness ==
    /\ opts.extract_search
    /\ Len(result) = 2
    /\ result[1]["CVE"] # result[2]["CVE"]
    /\ argv_cves # <<>>
    /\ Len(fetchLog) = Len(argv_cves) + 2
    /\ fetchLog[Len(fetchLog)].cve = result[2]["CVE"]
    /\ pc = "returned"

RECURSIVE Fragment(_, _)
\* "&name=value" for every non-empty criterion from the k-th of CriteriaNames
\* on, then "&" and the raw fragment as given.
Fragment(o, k) ==
    IF k > Len(CriteriaNames)
    THEN IF o.rawquery.isNone \/ o.rawquery.s = <<>> THEN <<>> ELSE <<"&">> \o o.rawquery.s
    ELSE LET v == o[CriteriaNames[k]]
         IN  (IF v.isNone \/ v.s = <<>> THEN <<>> ELSE <<"&", CriteriaNames[k], "=">> \o v.s)
             \o Fragment(o, k + 1)

\* The criteria of o that are given and not empty.
NonEmpty(o) ==
    {n \in Range(CriteriaNames) \cup {"rawquery"} : ~o[n].isNone /\ o[n].s # <<>>}

\* C6: once parse_args is done the search query is the concatenation of
\* "&name=value" for every non-empty criterion in the order before, after,
\* bug, advisory, severity, package, cwe, cvss_score, cvss3_score, followed by
\* the raw fragment, unchanged, behind its "&": with the single criterion f=v
\* it is "&f=v", with every criterion empty it is empty and no search request
\* is ever sent; a query that is not empty is what the one search request
\* carries.
C6_QueryFragment ==
    /\ pc # "parse_args" =>
          /\ opts.searchQuery = Fragment(opts, 1)
          /\ \A f \in Range(CriteriaNames) :
                NonEmpty(opts) = {f} => opts.searchQuery = <<"&", f, "=">> \o opts[f].s
          /\ NonEmpty(opts) = {"rawquery"} => opts.searchQuery = <<"&">> \o opts.rawquery.s
          /\ NonEmpty(opts) = {} => opts.searchQuery = <<>>
    /\ NonEmpty(opts) = {} => searchLog = <<>> /\ pc \notin {"search", "search_done"}
    /\ \A k \in DOMAIN searchLog : searchLog[k] = Fragment(opts, 1)
    /\ (NonEmpty(opts) # {} /\ pc \in {"cves", "returned"}) => Len(searchLog) = 1

\* A search was sent for --before, --package and --rawquery together.
C6_Witness ==
    /\ NonEmpty(opts) = {"before", "package", "rawquery"}
    /\ Len(searchLog) = 1
    /\ pc = "returned"

\* The last print_cve fetched a record and printed it as fielded text.
Fielded ==
    /\ fetchLog # <<>>
    /\ fetchLog[Len(fetchLog)].outcome = "ok"
    /\ ~a.onlyCount
    /\ ~a.rawOutput

\* The CVE the last print_cve was called with.
LastCve == fetchLog[Len(fetchLog)].cve

\* The tokens of text before its first newline.
FirstLine(text) ==
    IF \A k \in DOMAIN text : text[k] # NL THEN text
    ELSE SubSeq(text, 1, (CHOOSE n \in DOMAIN text :
                             text[n] = NL /\ \A m \in 1..(n - 1) : text[m] # NL) - 1)

Labels == {Label(f) : f \in FieldNames}

\* The block opens with the identifier's line: the identifier, and no field
\* on that line.
OpensWithHeader(text, cve) ==
    /\ startswith(FirstLine(text), cve)
    /\ Range(FirstLine(text)) \cap Labels = {}
    /\ Len(text) > Len(FirstLine(text))

\* C7 as stated: in fielded text mode the block of every fetched record, for
\* every field selection, opens with the identifier's line and ends with a
\* blank line.
C7_HeaderAndBlankLineAlways ==
    Fielded => /\ OpensWithHeader(last.text, LastCve)
               /\ EndsWith(last.text, <<NL, NL>>)

\* C7, amended: that holds for every --fields string that is not empty; for
\* the empty one the block is the identifier's line alone, with no blank line
\* after it.
C7_HeaderAndBlankLine ==
    Fielded =>
        /\ OpensWithHeader(last.text, LastCve)
        /\ opts.fields # <<>> => EndsWith(last.text, <<NL, NL>>)
        /\ opts.fields = <<>> => /\ last.text = FirstLine(last.text) \o <<NL>>
                                 /\ ~EndsWith(last.text, <<NL, NL>>)

\* A record with fields was printed under a selection of several fields.
C7_Witness ==
    /\ Fielded
    /\ Len(a.desiredFields) > 1
    /\ Range(last.text) \cap Labels # {}
    /\ EndsWith(last.text, <<NL, NL>>)

\* The field is named in the selection.
Selected(f) == \E k \in DOMAIN a.desiredFields : a.desiredFields[k] = <<f>>

\* text holds part as a run of consecutive tokens.
Holds(text, part) ==
    \E k \in 0..(Len(text) - Len(part)) : SubSeq(text, k + 1, k + Len(part)) = part

\* C8: in a fielded block a field's label is there exactly when the field is
\* selected and either carried by the record or bugzilla: a selected bugzilla
\* the record lacks is reported by the "no data" line and the guidance line,
\* every other selected field the record lacks leaves no line, and a field
\* that is not selected leaves none whether the record carries it or not.
C8_OnlyBugzillaReportsAbsence ==
    Fielded =>
        /\ \A f \in FieldNames :
              Label(f) \in Range(last.text)
                  <=> (Selected(f) /\ (f \in DOMAIN last.body \/ f = "bugzilla"))
        /\ (Selected("bugzilla") /\ "bugzilla" \notin DOMAIN last.body)
              => Holds(last.text,
                       <<Label("bugzilla"), NoBugzilla, NL, BugzillaGuidance, NL>>)
        /\ (Selected("bugzilla") /\ "bugzilla" \in DOMAIN last.body)
              => \E v \in {last.body["bugzilla"]["id"], last.body["bugzilla"]["url"]} :
                    Holds(last.text, <<Label("bugzilla")>> \o v \o <<NL>>)
        /\ ~(Selected("bugzilla") /\ "bugzilla" \notin DOMAIN last.body)
              => {NoBugzilla, BugzillaGuidance} \cap Range(last.text) = {}

\* bugzilla and cwe are both selected and both missing: one is reported, the
\* other is not.
C8_Witness ==
    /\ Fielded
    /\ Selected("bugzilla") /\ "bugzilla" \notin DOMAIN last.body
    /\ Selected("cwe") /\ "cwe" \notin DOMAIN last.body
    /\ NoBugzilla \in Range(last.text)
    /\ Label("cwe") \notin Range(last.text)

\* The place of a field in the fixed order of the report.
OrderOf(f) == CHOOSE k \in DOMAIN FieldOrder : FieldOrder[k] = f
LabelField(t) == CHOOSE f \in FieldNames : Label(f) = t

\* C9: the labels of a fielded block stand in the fixed order threat_severity,
\* public_date, cwe, cvss, cvss3, bugzilla, acknowledgement, details,
\* statement, affected_release, package_state, each at most once, after the
\* identifier's line; and every --fields string that names the same set of
\* fields, in whatever order and however often, renders the record to the
\* same block.
C9_FixedOrder ==
    Fielded =>
        /\ OpensWithHeader(last.text, LastCve)
        /\ \A m, n \in DOMAIN last.text :
              (m < n /\ last.text[m] \in Labels /\ last.text[n] \in Labels)
                  => OrderOf(LabelField(last.text[m])) < OrderOf(LabelField(last.text[n]))
        /\ \A f \in FieldsStrings :
              Range(parse_fields(f)) = Range(a.desiredFields)
                  => print_cve_text([a EXCEPT !.desiredFields = parse_fields(f)],
                                    LastCve, last.body) = last.text

\* affected_release was listed before bugzilla and bugzilla before cwe, all
\* three were printed; another string names the same set.
C9_Witness ==
    /\ Fielded
    /\ \E m, n, q \in DOMAIN a.desiredFields :
          /\ m < n /\ n < q
          /\ a.desiredFields[m] = <<"affected_release">>
          /\ a.desiredFields[n] = <<"bugzilla">>
          /\ a.desiredFields[q] = <<"cwe">>
    /\ {Label("affected_release"), Label("cwe"), Label("bugzilla")} \subseteq Range(last.text)
    /\ \E f \in FieldsStrings :
          /\ parse_fields(f) # a.desiredFields
          /\ Range(parse_fields(f)) = Range(a.desiredFields)

\* The entry lines of the section label opens: those up to the next label.
Entries(text, label) ==
    LET at == CHOOSE k \in DOMAIN text : text[k] = label
        stop == IF \E k \in (at + 1)..Len(text) : text[k] \in Labels
                THEN CHOOSE k \in (at + 1)..Len(text) :
                        text[k] \in Labels /\ \A m \in (at + 1)..(k - 1) : text[m] \notin Labels
                ELSE Len(text) + 1
    IN  Cardinality({k \in (at + 1)..(stop - 1) : text[k] = "   "})

\* The record with the bare object of field f wrapped in a one-element list.
Wrapped(j, f) == [j EXCEPT ![f] = [isDict |-> FALSE, d |-> NoObj, l |-> <<j[f].d>>]]

\* C10: a record whose affected_release (or package_state) is a bare object
\* is printed with exactly one entry line in that section, and its whole block
\* is the block of the same record with the object wrapped in a one-element
\* list.
C10_BareObjectAsOneElementList ==
    Fielded =>
        \A f \in {"affected_release", "package_state"} :
            (Selected(f) /\ f \in DOMAIN last.body /\ last.body[f].isDict)
                => /\ Entries(last.text, Label(f)) = 1
                   /\ last.text = print_cve_text(a, LastCve, Wrapped(last.body, f))

\* A record with a bare affected_release was printed with that field selected.
C10_Witness ==
    /\ Fielded
    /\ Selected("affected_release")
    /\ "affected_release" \in DOMAIN last.body
    /\ last.body["affected_release"].isDict
    /\ Holds(last.text, <<Label("affected_release"), NL, "   ">>)

\* The last print_cve printed the details of a fetched record, and nothing
\* else, as fielded text.
DetailsPrinted ==
    /\ Fielded
    /\ a.desiredFields = << <<"details">> >>
    /\ "details" \in DOMAIN last.body
    /\ Label("details") \in Range(last.text)

\* What was printed for details: the text between the label and the two
\* newlines that close the block.
Shown ==
    LET at == CHOOSE k \in DOMAIN last.text : last.text[k] = Label("details")
    IN  SubSeq(last.text, at + 1, Len(last.text) - 2)

\* The characters of a free text that are not whitespace, in order.
Letters(s) == SelectSeq(s, LAMBDA c : c \notin Whitespace)
TextLetters(t) == IF t.isList THEN Letters(Concat(t.l)) ELSE Letters(t.s)

\* C11 as stated: under every positive width the printed details, wrapped again
\* to the same width, come out unchanged; under width 0 the printed details
\* are the text on one line, with no line break.
C11_WrapIdempotent ==
    DetailsPrinted =>
        IF a.w > 0
        THEN stripjoin(a, TextStr(Shown)) = Shown
        ELSE /\ NL \notin Range(Shown)
             /\ Letters(Shown) = TextLetters(last.body.details)

\* The requests for CVEs sent so far, as the list of their CVEs.
Fetched == [k \in DOMAIN fetchLog |-> fetchLog[k].cve]

\* The run has ended with CVEs of the list left unrequested.
EndedShort == exitStatus # -1 /\ Len(fetchLog) < Len(opts.cves)

\* The requests sent are a prefix of the list, and the list opens with the
\* CVEs of the command line.
FetchedIsPrefix ==
    /\ Len(fetchLog) <= Len(opts.cves)
    /\ Fetched = SubSeq(opts.cves, 1, Len(fetchLog))
    /\ Len(argv_cves) <= Len(opts.cves)
    /\ SubSeq(opts.cves, 1, Len(argv_cves)) = argv_cves

FetchStep ==
    /\ Len(fetchLog') \in {Len(fetchLog), Len(fetchLog) + 1}
    /\ SubSeq(fetchLog', 1, Len(fetchLog)) = fetchLog
    /\ fetchLog' # fetchLog =>
          /\ pc = "cves"
          /\ fetchLog'[Len(fetchLog')].cve = opts.cves[i]
          /\ i = Len(fetchLog')
          /\ i' = i + 1 \/ pc' = "exit1"
    /\ i' >= i
    /\ fetchLog # <<>> => opts'.cves = opts.cves

C13_CountRendersNothing ==
    opts.count =>
        /\ printed = <<>>
        /\ a.output = <<>>
        /\ last.text = <<>>
        /\ \A k \in DOMAIN pasteLog : pasteLog[k] = <<>>
        /\ (pc # "help" /\ pasteLog = <<>>) => stdout = <<>>
        /\ pasteLog # <<>> => (stdout = <<>> \/ stdout \in SinkReplies)
        /\ pc \notin {"parse_args", "main", "help"} =>
              a.cveCount = Cardinality(Ended({"ok"}))

\* A finished --count --json run to the terminal that ran a search with
\* results (not extracted) and requested two CVEs, one found and one not.
C13_Witness ==
    /\ opts.count
    /\ a.rawOutput
    /\ ~a.toPaste
    /\ pc = "returned"
    /\ Len(searchLog) = 1
    /\ Len(result) = 2
    /\ ~opts.extract_search
    /\ Ended({"ok"}) # {}
    /\ Ended({"HTTP4xx"}) # {}
    /\ a.cveCount = 1
    /\ stdout = <<>>

====
